---- MODULE Spec2Model ----
(***************************************************************************)
(* Suspend/resume coordination of vcml::debugging (suspend_manager and     *)
(* suspender).  One loop thread (the SystemC thread) runs scheduled work   *)
(* and calls handle_requests() at every delta cycle; controller threads    *)
(* call suspend(), resume(), force_resume(), current() and destroy their   *)
(* suspender.  Every critical section under suspender_lock is two steps    *)
(* (acquire, then body and release), the condition wait is modelled with   *)
(* its set of waiters, and sysc_lock with its holder.                      *)
(***************************************************************************)
EXTENDS Integers, Sequences, FiniteSets, TLC

\* ------------------------------------------------------------------ bounds
\* calls the controller threads (and the loop thread's own suspend) may make
MaxOps == 4
\* deepest nesting of suspend() on one handle
MaxDepth == 2
\* how far below zero unmatched resume() calls may take a counter
MaxUnmatched == 1
\* calls made in the fair specification
FairOps == 3
\* objects of the simulation's hierarchy
MaxNodes == 3
\* calls made in the specification over all hierarchies
HierOps == 2
\* calls made in the specification with a second thread in handle_requests()
ConcOps == 2

\* ------------------------------------------------------------- identities
LoopT == "L"
Threads == {"T1", "T2"}
Handles == {"A", "B"}
NoOne == "none"

\* the suspender a controller thread created and uses
HandleOf(t) == IF t = "T1" THEN "A" ELSE "B"

VARIABLES
    is_suspended,    \* suspend_manager::is_suspended
    sysc_lock,       \* holder of suspend_manager::sysc_lock, or NoOne
    sysc_notify,     \* threads blocked in sysc_notify.wait and not yet woken
    suspender_lock,  \* holder of suspend_manager::suspender_lock, or NoOne
    suspenders,      \* suspend_manager::suspenders, a sequence of handles
    m_pcount,        \* suspender::m_pcount of every handle
    alive,           \* whether the handle has not been destroyed
    running,         \* sc_is_running()
    lpc,             \* position of the loop thread
    lh,              \* handle the loop thread is calling suspend() on, or NoOne
    pc,              \* position of every controller thread
    wait_arg,        \* the wait argument of the suspend() call in progress
    ret,             \* outcome of the last call every thread completed
    ops,             \* calls still allowed
    notified,        \* notifications made in the current handle_requests() call
    cleared,         \* handle was registered with depth >= 1 when force_resume() cleared it
    waited,          \* "calling" while suspend(true) is in progress on the handle,
                     \* "yes" once it has returned; "no" again with the handle's
                     \* release, its destruction or a force_resume()
    balance,         \* suspend() calls minus resume() calls made on the handle,
                     \* negative once a resume() had no earlier suspend()
    children,        \* get_child_objects() of every object, in order; at Root
                     \* sc_get_top_level_objects()
    is_module,       \* whether dynamic_cast<module*> of the object succeeds
    session_log,     \* session_suspend() and session_resume() calls made in the
                     \* current handle_requests() call, in order
    xpc              \* position of a second thread that calls handle_requests()

vars == <<is_suspended, sysc_lock, sysc_notify, suspender_lock, suspenders,
          m_pcount, alive, running, lpc, lh, pc, wait_arg, ret, ops,
          notified, cleared, waited, balance, children, is_module, session_log,
          xpc>>

\* ------------------------------------------------------------ stl helpers
stl_contains(v, s) == \E i \in 1..Len(v) : v[i] = s

\* mutant: the new element inserted at the front
stl_add_unique_front(v, s) == IF stl_contains(v, s) THEN v ELSE <<s>> \o v

stl_add_unique(v, s) == IF stl_contains(v, s) THEN v ELSE Append(v, s)

\* mutant: the erase taking every element with it
stl_remove_erase_all(v, s) == SelectSeq(v, LAMBDA x : FALSE)

stl_remove_erase(v, s) == SelectSeq(v, LAMBDA x : x # s)

\* suspend_manager::count() under the lock
count == Len(suspenders)

\* condition_variable_any::notify_all: every waiter is woken
notify_all(waiters) == {}

\* the predicate of the wait in handle_requests()
wait_predicate == count = 0

\* mutant: request_pause also from a counter below zero, m_pcount++ <= 0
suspend_registers_neg(old) == old <= 0

\* suspender::suspend: m_pcount++ == 0
suspend_registers(old) == old = 0

\* mutant: the test written with the post-decrement, m_pcount-- == 0
resume_releases_post(new) == new + 1 = 0

\* suspender::resume: --m_pcount == 0
resume_releases(new) == new = 0

\* thctl_is_sysc_thread()
thctl_is_sysc_thread(t) == t = LoopT

\* mutant: the wait taken whoever the caller is
suspend_waits_any(w, t) == w

\* suspender::suspend: wait && !thctl_is_sysc_thread()
suspend_waits(w, t) == w /\ ~thctl_is_sysc_thread(t)

\* mutant: the error test off by one, m_pcount <= 0
resume_outcome_strict(n) == IF n <= 0 THEN "err_unmatched" ELSE "resume_ok"

\* mutant: the error test one too late, m_pcount < -1
resume_outcome_late(n) == IF n < 0 - 1 THEN "err_unmatched" ELSE "resume_ok"

\* VCML_ERROR_ON(m_pcount < 0, "unmatched resume")
resume_outcome(n) == IF n < 0 THEN "err_unmatched" ELSE "resume_ok"

\* ------------------------------------------------------- object hierarchy
\* the sc_objects; Root stands for the nullptr that notify_suspend() and
\* notify_resume() start from
Nodes == 1..MaxNodes
Root == 0

\* the children of every object, in order of creation, given every object's
\* parent
ChildrenOf(parent) ==
    [p \in {Root} \cup Nodes |->
        SelectSeq([i \in Nodes |-> i], LAMBDA n : parent[n] = p)]

\* a hierarchy: every object is created inside Root or an older object
Hierarchies == {parent \in [Nodes -> {Root} \cup Nodes] :
                   \A n \in Nodes : parent[n] < n}

\* the simulated design: a top-level module, in it an object that is not a
\* module, in that a module; further objects are modules of the top level one
top_parent == [n \in Nodes |-> IF n = 1 THEN Root ELSE IF n = 3 THEN 2 ELSE 1]
top_modules == [n \in Nodes |-> n # 2]

InitHierarchy(parent, mods) ==
    /\ children = ChildrenOf(parent)
    /\ is_module = mods
    /\ session_log = <<>>

RECURSIVE notify_suspend(_), notify_suspend_each(_)
\* notify_suspend(obj): the session_suspend() calls it makes, in order: the
\* children first, then obj itself if it is a module
notify_suspend(obj) ==
    notify_suspend_each(children[obj])
       \o (IF obj = Root THEN <<>>
           ELSE IF is_module[obj] THEN <<obj>> ELSE <<>>)

\* for (auto child : children) notify_suspend(child)
notify_suspend_each(objs) ==
    IF objs = <<>> THEN <<>>
    ELSE notify_suspend(Head(objs)) \o notify_suspend_each(Tail(objs))

RECURSIVE notify_resume(_), notify_resume_each(_)
\* mutant: notify_resume that does not go below the top-level objects
notify_resume_shallow(obj) ==
    SelectSeq(children[Root], LAMBDA n : obj = Root /\ is_module[n])

\* notify_resume(obj): the session_resume() calls it makes, in order
notify_resume(obj) ==
    notify_resume_each(children[obj])
       \o (IF obj = Root THEN <<>>
           ELSE IF is_module[obj] THEN <<obj>> ELSE <<>>)

\* for (auto child : children) notify_resume(child)
notify_resume_each(objs) ==
    IF objs = <<>> THEN <<>>
    ELSE notify_resume(Head(objs)) \o notify_resume_each(Tail(objs))

\* the calls of one traversal as entries of the log
session_calls(kind, objs) ==
    [i \in 1..Len(objs) |-> [call |-> kind, node |-> objs[i]]]

\* ------------------------------------------------------------------- init
\* suspend_manager::suspend_manager(): all members default, sysc_lock taken
\* by the constructing (loop) thread; the simulation has not started
InitGate(n) ==
    /\ is_suspended = FALSE
    /\ sysc_lock = LoopT
    /\ sysc_notify = {}
    /\ suspender_lock = NoOne
    /\ suspenders = <<>>
    /\ m_pcount = [h \in Handles |-> 0]
    /\ alive = [h \in Handles |-> TRUE]
    /\ running = FALSE
    /\ lpc = "work"
    /\ lh = NoOne
    /\ pc = [t \in Threads |-> "idle"]
    /\ wait_arg = [t \in Threads \cup {LoopT} |-> FALSE]
    /\ ret = [t \in Threads \cup {LoopT} |-> "none"]
    /\ ops = n
    /\ notified = <<>>
    /\ cleared = [h \in Handles |-> FALSE]
    /\ waited = [h \in Handles |-> "no"]
    /\ balance = [h \in Handles |-> 0]
    /\ xpc = "out"

\* the gate and the simulated design
InitWith(n) == InitGate(n) /\ InitHierarchy(top_parent, top_modules)

Init == InitWith(MaxOps)

\* the calls made on a handle: a suspend() adds one, a resume() matches the
\* latest unmatched suspend(), and a resume() with none to match marks the
\* handle's call sequence for good
suspend_balance(b) == IF b < 0 THEN b ELSE b + 1

resume_balance(b) == IF b <= 0 THEN 0 - 1 ELSE b - 1

\* a controller's call returns with outcome r
Return(t, r) ==
    /\ pc' = [pc EXCEPT ![t] = "idle"]
    /\ ret' = [ret EXCEPT ![t] = r]
    /\ wait_arg' = [wait_arg EXCEPT ![t] = FALSE]

Goto(t, p) ==
    /\ pc' = [pc EXCEPT ![t] = p]
    /\ UNCHANGED <<ret, wait_arg>>

\* the handle may be used by a new call of thread t
Usable(t, h) == alive[h] /\ lh # h /\ pc[t] = "idle" /\ ops > 0


\* mutant: request_pause without the sc_is_running() test
suspend_call_nocheck(t, w) ==
    LET h == HandleOf(t)
        old == m_pcount[h] IN
    /\ Usable(t, h)
    /\ old < MaxDepth
    /\ ops' = ops - 1
    /\ balance' = [balance EXCEPT ![h] = suspend_balance(balance[h])]
    /\ m_pcount' = [m_pcount EXCEPT ![h] = old + 1]
    /\ IF suspend_registers(old)
         THEN /\ pc' = [pc EXCEPT ![t] = "rp_lock"]
              /\ wait_arg' = [wait_arg EXCEPT ![t] = w]
              /\ UNCHANGED ret
         ELSE IF suspend_waits(w, t)
                THEN Goto(t, "sw_lock")
                ELSE Return(t, "suspend_ok")
    /\ waited' = [waited EXCEPT ![h] =
                     IF suspend_waits(w, t) THEN "calling" ELSE @]
    /\ UNCHANGED <<is_suspended, sysc_lock, sysc_notify, suspender_lock,
                   suspenders, alive, running, lpc, lh, notified, cleared,
                   children, is_module, session_log, xpc>>

\* ------------------------------------------------ controller: suspend()
\* suspender::suspend up to the lock of request_pause: m_pcount++ == 0, then
\* the sc_is_running() test, whose VCML_ERROR leaves the call by exception
suspend_call(t, w) ==
    LET h == HandleOf(t)
        old == m_pcount[h] IN
    /\ Usable(t, h)
    /\ old < MaxDepth
    /\ ops' = ops - 1
    /\ balance' = [balance EXCEPT ![h] = suspend_balance(balance[h])]
    /\ m_pcount' = [m_pcount EXCEPT ![h] = old + 1]
    /\ IF suspend_registers(old)
         THEN IF ~running
                THEN Return(t, "err_notrunning")
                ELSE /\ pc' = [pc EXCEPT ![t] = "rp_lock"]
                     /\ wait_arg' = [wait_arg EXCEPT ![t] = w]
                     /\ UNCHANGED ret
         ELSE IF suspend_waits(w, t)
                THEN Goto(t, "sw_lock")
                ELSE Return(t, "suspend_ok")
    /\ waited' = [waited EXCEPT ![h] =
                     IF suspend_waits(w, t) /\ (suspend_registers(old) => running)
                       THEN "calling" ELSE @]
    /\ UNCHANGED <<is_suspended, sysc_lock, sysc_notify, suspender_lock,
                   suspenders, alive, running, lpc, lh, notified, cleared,
                   children, is_module, session_log, xpc>>

\* request_pause: lock_guard<mutex> guard(suspender_lock)
request_pause_lock(t) ==
    /\ pc[t] = "rp_lock"
    /\ suspender_lock = NoOne
    /\ suspender_lock' = t
    /\ Goto(t, "rp_body")
    /\ UNCHANGED <<is_suspended, sysc_lock, sysc_notify, suspenders, m_pcount,
                   alive, running, lpc, lh, ops, notified, cleared, waited, balance,
                   children, is_module, session_log, xpc>>

\* mutant: suspender_lock kept over the lock of sysc_lock in suspend(true)
request_pause_body_held(t) ==
    /\ pc[t] = "rp_body"
    /\ suspenders' = stl_add_unique(suspenders, HandleOf(t))
    /\ IF suspend_waits(wait_arg[t], t)
         THEN /\ pc' = [pc EXCEPT ![t] = "sw_lock"]
              /\ wait_arg' = [wait_arg EXCEPT ![t] = FALSE]
              /\ UNCHANGED <<ret, suspender_lock>>
         ELSE Return(t, "suspend_ok") /\ suspender_lock' = NoOne
    /\ UNCHANGED <<is_suspended, sysc_lock, sysc_notify, m_pcount, alive,
                   running, lpc, lh, ops, notified, cleared, waited, balance,
                   children, is_module, session_log, xpc>>

\* mutant: request_pause that sets the paused flag itself
request_pause_body_eager(t) ==
    /\ pc[t] = "rp_body"
    /\ suspenders' = stl_add_unique(suspenders, HandleOf(t))
    /\ suspender_lock' = NoOne
    /\ is_suspended' = TRUE
    /\ IF suspend_waits(wait_arg[t], t)
         THEN /\ pc' = [pc EXCEPT ![t] = "sw_lock"]
              /\ wait_arg' = [wait_arg EXCEPT ![t] = FALSE]
              /\ UNCHANGED ret
         ELSE Return(t, "suspend_ok")
    /\ UNCHANGED <<sysc_lock, sysc_notify, m_pcount, alive,
                   running, lpc, lh, ops, notified, cleared, waited, balance,
                   children, is_module, session_log, xpc>>

\* request_pause: stl_add_unique and the end of the guard's scope; then the
\* wait test of suspend
request_pause_body(t) ==
    /\ pc[t] = "rp_body"
    /\ suspenders' = stl_add_unique(suspenders, HandleOf(t))
    /\ suspender_lock' = NoOne
    /\ IF suspend_waits(wait_arg[t], t)
         THEN /\ pc' = [pc EXCEPT ![t] = "sw_lock"]
              /\ wait_arg' = [wait_arg EXCEPT ![t] = FALSE]
              /\ UNCHANGED ret
         ELSE Return(t, "suspend_ok")
    /\ UNCHANGED <<is_suspended, sysc_lock, sysc_notify, m_pcount, alive,
                   running, lpc, lh, ops, notified, cleared, waited, balance,
                   children, is_module, session_log, xpc>>

\* suspend: lock_guard<mutex> lock(g_manager.sysc_lock) blocks while the loop
\* thread (or another prober) holds sysc_lock
suspend_wait_lock(t) ==
    /\ pc[t] = "sw_lock"
    /\ sysc_lock = NoOne
    /\ sysc_lock' = t
    /\ Goto(t, "sw_unlock")
    /\ UNCHANGED <<is_suspended, sysc_notify, suspender_lock, suspenders,
                   m_pcount, alive, running, lpc, lh, ops, notified, cleared,
                   waited, balance,
                   children, is_module, session_log, xpc>>

\* suspend: the guard's scope ends at once and suspend(true) returns
suspend_wait_unlock(t) ==
    /\ pc[t] = "sw_unlock"
    /\ sysc_lock' = NoOne
    /\ Return(t, "suspend_ok")
    /\ waited' = [waited EXCEPT ![HandleOf(t)] =
                     IF @ = "calling" THEN "yes" ELSE "no"]
    /\ UNCHANGED <<is_suspended, sysc_notify, suspender_lock, suspenders,
                   m_pcount, alive, running, lpc, lh, ops, notified, cleared, balance,
                   children, is_module, session_log, xpc>>

\* ------------------------------------------------- controller: resume()
\* suspender::resume: --m_pcount == 0, and the error test when request_resume
\* is not called
resume_call(t) ==
    LET h == HandleOf(t)
        new == m_pcount[h] - 1 IN
    /\ Usable(t, h)
    /\ m_pcount[h] > -MaxUnmatched
    /\ ops' = ops - 1
    /\ balance' = [balance EXCEPT ![h] = resume_balance(balance[h])]
    /\ m_pcount' = [m_pcount EXCEPT ![h] = new]
    /\ waited' = [waited EXCEPT ![h] = IF new > 0 THEN @ ELSE "no"]
    /\ IF resume_releases(new)
         THEN Goto(t, "rr_lock")
         ELSE Return(t, resume_outcome(new))
    /\ UNCHANGED <<is_suspended, sysc_lock, sysc_notify, suspender_lock,
                   suspenders, alive, running, lpc, lh, notified, cleared,
                   children, is_module, session_log, xpc>>

\* request_resume: lock_guard<mutex> guard(suspender_lock)
request_resume_lock(t) ==
    /\ pc[t] \in {"rr_lock", "drr_lock"}
    /\ suspender_lock = NoOne
    /\ suspender_lock' = t
    /\ Goto(t, IF pc[t] = "rr_lock" THEN "rr_body" ELSE "drr_body")
    /\ UNCHANGED <<is_suspended, sysc_lock, sysc_notify, suspenders, m_pcount,
                   alive, running, lpc, lh, ops, notified, cleared, waited, balance,
                   children, is_module, session_log, xpc>>

\* request_resume: stl_remove_erase, notify_all when the registry is empty,
\* and the end of the guard's scope
request_resume(t, h) ==
    /\ suspender_lock = t
    /\ suspenders' = stl_remove_erase(suspenders, h)
    /\ sysc_notify' = IF Len(suspenders') = 0 THEN notify_all(sysc_notify)
                                              ELSE sysc_notify
    /\ suspender_lock' = NoOne

\* resume: request_resume, then VCML_ERROR_ON(m_pcount < 0)
resume_body(t) ==
    LET h == HandleOf(t) IN
    /\ pc[t] = "rr_body"
    /\ request_resume(t, h)
    /\ Return(t, resume_outcome(m_pcount[h]))
    /\ cleared' = [cleared EXCEPT ![h] = FALSE]
    /\ UNCHANGED <<is_suspended, sysc_lock, m_pcount, alive, running, lpc, lh,
                   ops, notified, waited, balance,
                   children, is_module, session_log, xpc>>

\* ------------------------------------------- controller: ~suspender()
destroy_call(t) ==
    LET h == HandleOf(t) IN
    /\ Usable(t, h)
    /\ ops' = ops - 1
    /\ Goto(t, "d_lock")
    /\ waited' = [waited EXCEPT ![h] = "no"]
    /\ UNCHANGED <<is_suspended, sysc_lock, sysc_notify, suspender_lock,
                   suspenders, m_pcount, alive, running, lpc, lh, notified,
                   cleared, balance,
                   children, is_module, session_log, xpc>>

\* is_suspending: lock_guard<mutex> guard(suspender_lock)
is_suspending_lock(t) ==
    /\ pc[t] = "d_lock"
    /\ suspender_lock = NoOne
    /\ suspender_lock' = t
    /\ Goto(t, "d_body")
    /\ UNCHANGED <<is_suspended, sysc_lock, sysc_notify, suspenders, m_pcount,
                   alive, running, lpc, lh, ops, notified, cleared, waited, balance,
                   children, is_module, session_log, xpc>>

\* the destructor has run: the handle is gone
Destroyed(t, h, r) ==
    /\ alive' = [alive EXCEPT ![h] = FALSE]
    /\ cleared' = [cleared EXCEPT ![h] = FALSE]
    /\ Return(t, IF r = "err_unmatched" THEN r ELSE "destroy_ok")

\* ~suspender: if (is_suspending()) resume(), up to the lock of
\* request_resume
destroy_check(t) ==
    LET h == HandleOf(t)
        new == m_pcount[h] - 1 IN
    /\ pc[t] = "d_body"
    /\ suspender_lock' = NoOne
    /\ IF stl_contains(suspenders, h)
         THEN /\ m_pcount' = [m_pcount EXCEPT ![h] = new]
              /\ IF resume_releases(new)
                   THEN Goto(t, "drr_lock") /\ UNCHANGED <<alive, cleared>>
                   ELSE Destroyed(t, h, resume_outcome(new))
         ELSE /\ UNCHANGED m_pcount
              /\ Destroyed(t, h, "destroy_ok")
    /\ UNCHANGED <<is_suspended, sysc_lock, sysc_notify, suspenders, running,
                   lpc, lh, ops, notified, waited, balance,
                   children, is_module, session_log, xpc>>

\* ~suspender: the request_resume of its resume()
destroy_resume_body(t) ==
    LET h == HandleOf(t) IN
    /\ pc[t] = "drr_body"
    /\ request_resume(t, h)
    /\ Destroyed(t, h, resume_outcome(m_pcount[h]))
    /\ UNCHANGED <<is_suspended, sysc_lock, m_pcount, running, lpc, lh, ops,
                   notified, waited, balance,
                   children, is_module, session_log, xpc>>

\* -------------------------------------------- controller: force_resume()
force_resume_call(t) ==
    /\ pc[t] = "idle"
    /\ ops > 0
    /\ ops' = ops - 1
    /\ Goto(t, "f_lock")
    /\ waited' = [h \in Handles |-> "no"]
    /\ UNCHANGED <<is_suspended, sysc_lock, sysc_notify, suspender_lock,
                   suspenders, m_pcount, alive, running, lpc, lh, notified,
                   cleared, balance,
                   children, is_module, session_log, xpc>>

force_resume_lock(t) ==
    /\ pc[t] = "f_lock"
    /\ suspender_lock = NoOne
    /\ suspender_lock' = t
    /\ Goto(t, "f_body")
    /\ UNCHANGED <<is_suspended, sysc_lock, sysc_notify, suspenders, m_pcount,
                   alive, running, lpc, lh, ops, notified, cleared, waited, balance,
                   children, is_module, session_log, xpc>>

\* force_resume: suspenders.clear(), notify_all, end of the guard's scope
force_resume_body(t) ==
    /\ pc[t] = "f_body"
    /\ cleared' = [h \in Handles |->
                     cleared[h] \/ (stl_contains(suspenders, h) /\ alive[h]
                                    /\ m_pcount[h] >= 1)]
    /\ waited' = [h \in Handles |-> "no"]
    /\ suspenders' = <<>>
    /\ sysc_notify' = notify_all(sysc_notify)
    /\ suspender_lock' = NoOne
    /\ Return(t, "force_resume_ok")
    /\ UNCHANGED <<is_suspended, sysc_lock, m_pcount, alive, running, lpc, lh,
                   ops, notified, balance,
                   children, is_module, session_log, xpc>>

\* mutant: current() without the probe of sysc_lock
current_call_noprobe(t) ==
    /\ pc[t] = "idle"
    /\ ops > 0
    /\ ops' = ops - 1
    /\ Goto(t, "c_unlock")
    /\ UNCHANGED <<is_suspended, sysc_lock, sysc_notify, suspender_lock,
                   suspenders, m_pcount, alive, running, lpc, lh, notified,
                   cleared, waited, balance,
                   children, is_module, session_log, xpc>>

\* mutant: the probe read the wrong way round, nullptr when try_lock succeeds
current_call_swapped(t) ==
    /\ pc[t] = "idle"
    /\ ops > 0
    /\ ops' = ops - 1
    /\ IF sysc_lock = NoOne
         THEN Return(t, "null") /\ UNCHANGED sysc_lock
         ELSE sysc_lock' = sysc_lock /\ Goto(t, "c_lock")
    /\ UNCHANGED <<is_suspended, sysc_notify, suspender_lock, suspenders,
                   m_pcount, alive, running, lpc, lh, notified, cleared,
                   waited, balance,
                   children, is_module, session_log, xpc>>

\* ------------------------------------------------ controller: current()
\* current: sysc_lock.try_lock(); nullptr when it fails
current_call(t) ==
    /\ pc[t] = "idle"
    /\ ops > 0
    /\ ops' = ops - 1
    /\ IF sysc_lock # NoOne
         THEN Return(t, "null") /\ UNCHANGED sysc_lock
         ELSE sysc_lock' = t /\ Goto(t, "c_unlock")
    /\ UNCHANGED <<is_suspended, sysc_notify, suspender_lock, suspenders,
                   m_pcount, alive, running, lpc, lh, notified, cleared,
                   waited, balance,
                   children, is_module, session_log, xpc>>

\* current: sysc_lock.unlock()
current_unlock(t) ==
    /\ pc[t] = "c_unlock"
    /\ sysc_lock' = NoOne
    /\ Goto(t, "c_lock")
    /\ UNCHANGED <<is_suspended, sysc_notify, suspender_lock, suspenders,
                   m_pcount, alive, running, lpc, lh, ops, notified, cleared,
                   waited, balance,
                   children, is_module, session_log, xpc>>

current_lock(t) ==
    /\ pc[t] = "c_lock"
    /\ suspender_lock = NoOne
    /\ suspender_lock' = t
    /\ Goto(t, "c_body")
    /\ UNCHANGED <<is_suspended, sysc_lock, sysc_notify, suspenders, m_pcount,
                   alive, running, lpc, lh, ops, notified, cleared, waited, balance,
                   children, is_module, session_log, xpc>>

\* current: nullptr when the registry is empty, else suspenders.front()
current_body(t) ==
    /\ pc[t] = "c_body"
    /\ suspender_lock' = NoOne
    /\ Return(t, IF Len(suspenders) = 0 THEN "null" ELSE Head(suspenders))
    /\ UNCHANGED <<is_suspended, sysc_lock, sysc_notify, suspenders, m_pcount,
                   alive, running, lpc, lh, ops, notified, cleared, waited, balance,
                   children, is_module, session_log, xpc>>

\* ------------------------------------------------------- the loop thread
\* sc_start(): the simulation runs and the delta-cycle callback is in use
sim_start ==
    /\ lpc = "work"
    /\ ~running
    /\ running' = TRUE
    /\ UNCHANGED <<is_suspended, sysc_lock, sysc_notify, suspender_lock,
                   suspenders, m_pcount, alive, lpc, lh, pc, wait_arg, ret,
                   ops, notified, cleared, waited, balance,
                   children, is_module, session_log, xpc>>

\* the simulation ends between two units of work
sim_stop ==
    /\ lpc = "work"
    /\ running
    /\ running' = FALSE
    /\ UNCHANGED <<is_suspended, sysc_lock, sysc_notify, suspender_lock,
                   suspenders, m_pcount, alive, lpc, lh, pc, wait_arg, ret,
                   ops, notified, cleared, waited, balance,
                   children, is_module, session_log, xpc>>

\* on_each_delta_cycle(fn): the running simulation calls handle_requests()
loop_boundary ==
    /\ lpc = "work"
    /\ running
    /\ lpc' = "hr_count"
    /\ notified' = <<>>
    /\ session_log' = <<>>
    /\ UNCHANGED <<is_suspended, sysc_lock, sysc_notify, suspender_lock,
                   suspenders, m_pcount, alive, running, lh, pc, wait_arg, ret,
                   ops, cleared, waited, balance,
                   children, is_module, xpc>>

\* count(): lock_guard<mutex> guard(suspender_lock), in the first test and in
\* the wait's predicate
count_lock ==
    /\ lpc \in {"hr_count", "hr_pred"}
    /\ suspender_lock = NoOne
    /\ suspender_lock' = LoopT
    /\ lpc' = IF lpc = "hr_count" THEN "hr_count_body" ELSE "hr_pred_body"
    /\ UNCHANGED <<is_suspended, sysc_lock, sysc_notify, suspenders, m_pcount,
                   alive, running, lh, pc, wait_arg, ret, ops, notified,
                   cleared, waited, balance,
                   children, is_module, session_log, xpc>>

\* mutant: the flag set together with the count() test
hr_count_flag ==
    /\ lpc = "hr_count_body"
    /\ suspender_lock' = NoOne
    /\ is_suspended' = (count # 0)
    /\ lpc' = IF count = 0 THEN "work" ELSE "hr_flag"
    /\ UNCHANGED <<sysc_lock, sysc_notify, suspenders, m_pcount,
                   alive, running, lh, pc, wait_arg, ret, ops, notified,
                   cleared, waited, balance,
                   children, is_module, session_log, xpc>>

\* mutant: no early return when the registry is empty
hr_count_always ==
    /\ lpc = "hr_count_body"
    /\ suspender_lock' = NoOne
    /\ lpc' = "hr_flag"
    /\ UNCHANGED <<is_suspended, sysc_lock, sysc_notify, suspenders, m_pcount,
                   alive, running, lh, pc, wait_arg, ret, ops, notified,
                   cleared, waited, balance,
                   children, is_module, session_log, xpc>>

\* handle_requests: if (count() == 0) return
hr_count ==
    /\ lpc = "hr_count_body"
    /\ suspender_lock' = NoOne
    /\ lpc' = IF count = 0 THEN "work" ELSE "hr_flag"
    /\ UNCHANGED <<is_suspended, sysc_lock, sysc_notify, suspenders, m_pcount,
                   alive, running, lh, pc, wait_arg, ret, ops, notified,
                   cleared, waited, balance,
                   children, is_module, session_log, xpc>>

\* mutant: the flag not set before the pre-pause notification
hr_flag_skip ==
    /\ lpc = "hr_flag"
    /\ lpc' = "hr_pre"
    /\ UNCHANGED <<is_suspended, sysc_lock, sysc_notify, suspender_lock,
                   suspenders, m_pcount, alive, running, lh, pc, wait_arg, ret,
                   ops, notified, cleared, waited, balance,
                   children, is_module, session_log, xpc>>

\* handle_requests: is_suspended = true
hr_flag ==
    /\ lpc = "hr_flag"
    /\ is_suspended' = TRUE
    /\ lpc' = "hr_pre"
    /\ UNCHANGED <<sysc_lock, sysc_notify, suspender_lock, suspenders,
                   m_pcount, alive, running, lh, pc, wait_arg, ret, ops,
                   notified, cleared, waited, balance,
                   children, is_module, session_log, xpc>>

\* handle_requests: notify_suspend()
hr_notify_suspend ==
    /\ lpc = "hr_pre"
    /\ notified' = Append(notified, "suspend")
    /\ session_log' = session_log \o session_calls("suspend", notify_suspend(Root))
    /\ lpc' = "hr_pred"
    /\ UNCHANGED <<is_suspended, sysc_lock, sysc_notify, suspender_lock,
                   suspenders, m_pcount, alive, running, lh, pc, wait_arg, ret,
                   ops, cleared, waited, balance,
                   children, is_module, xpc>>

\* wait(lock, pred) is while (!pred()) wait(lock): one evaluation of pred
hr_pred ==
    /\ lpc = "hr_pred_body"
    /\ suspender_lock' = NoOne
    /\ lpc' = IF wait_predicate THEN "hr_post" ELSE "hr_wait"
    /\ UNCHANGED <<is_suspended, sysc_lock, sysc_notify, suspenders, m_pcount,
                   alive, running, lh, pc, wait_arg, ret, ops, notified,
                   cleared, waited, balance,
                   children, is_module, session_log, xpc>>

\* wait(lock): atomically unlocks sysc_lock and blocks on sysc_notify
hr_wait ==
    /\ lpc = "hr_wait"
    /\ sysc_lock' = NoOne
    /\ sysc_notify' = sysc_notify \cup {LoopT}
    /\ lpc' = "hr_blocked"
    /\ UNCHANGED <<is_suspended, suspender_lock, suspenders, m_pcount, alive,
                   running, lh, pc, wait_arg, ret, ops, notified, cleared,
                   waited, balance,
                   children, is_module, session_log, xpc>>

\* mutant: the wait returning without sysc_lock locked again
hr_wakeup_nolock ==
    /\ lpc = "hr_blocked"
    /\ LoopT \notin sysc_notify
    /\ lpc' = "hr_pred"
    /\ UNCHANGED <<is_suspended, sysc_lock, sysc_notify, suspender_lock,
                   suspenders, m_pcount, alive, running, lh, pc, wait_arg, ret,
                   ops, notified, cleared, waited, balance,
                   children, is_module, session_log, xpc>>

\* mutant: wait(lock) without the predicate, any wakeup ends the wait
hr_wakeup_nopred ==
    /\ lpc = "hr_blocked"
    /\ LoopT \notin sysc_notify
    /\ sysc_lock = NoOne
    /\ sysc_lock' = LoopT
    /\ lpc' = "hr_post"
    /\ UNCHANGED <<is_suspended, sysc_notify, suspender_lock, suspenders,
                   m_pcount, alive, running, lh, pc, wait_arg, ret, ops,
                   notified, cleared, waited, balance,
                   children, is_module, session_log, xpc>>

\* mutant: the pre-pause notification inside the wait loop, run again after
\* every wakeup
hr_wakeup_renotify ==
    /\ lpc = "hr_blocked"
    /\ LoopT \notin sysc_notify
    /\ sysc_lock = NoOne
    /\ sysc_lock' = LoopT
    /\ lpc' = "hr_pre"
    /\ UNCHANGED <<is_suspended, sysc_notify, suspender_lock, suspenders,
                   m_pcount, alive, running, lh, pc, wait_arg, ret, ops,
                   notified, cleared, waited, balance,
                   children, is_module, session_log, xpc>>

\* wait(lock): once woken the thread locks sysc_lock again and returns to the
\* loop of wait(lock, pred)
hr_wakeup ==
    /\ lpc = "hr_blocked"
    /\ LoopT \notin sysc_notify
    /\ sysc_lock = NoOne
    /\ sysc_lock' = LoopT
    /\ lpc' = "hr_pred"
    /\ UNCHANGED <<is_suspended, sysc_notify, suspender_lock, suspenders,
                   m_pcount, alive, running, lh, pc, wait_arg, ret, ops,
                   notified, cleared, waited, balance,
                   children, is_module, session_log, xpc>>

\* a condition wait may wake without a notification
hr_spurious ==
    /\ lpc = "hr_blocked"
    /\ LoopT \in sysc_notify
    /\ sysc_notify' = sysc_notify \ {LoopT}
    /\ UNCHANGED <<is_suspended, sysc_lock, suspender_lock, suspenders,
                   m_pcount, alive, running, lpc, lh, pc, wait_arg, ret, ops,
                   notified, cleared, waited, balance,
                   children, is_module, session_log, xpc>>

\* handle_requests: notify_resume()
hr_notify_resume ==
    /\ lpc = "hr_post"
    /\ notified' = Append(notified, "resume")
    /\ session_log' = session_log \o session_calls("resume", notify_resume(Root))
    /\ lpc' = "hr_clear"
    /\ UNCHANGED <<is_suspended, sysc_lock, sysc_notify, suspender_lock,
                   suspenders, m_pcount, alive, running, lh, pc, wait_arg, ret,
                   ops, cleared, waited, balance,
                   children, is_module, xpc>>

\* handle_requests: is_suspended = false, and the return
hr_clear ==
    /\ lpc = "hr_clear"
    /\ is_suspended' = FALSE
    /\ lpc' = "work"
    /\ UNCHANGED <<sysc_lock, sysc_notify, suspender_lock, suspenders,
                   m_pcount, alive, running, lh, pc, wait_arg, ret, ops,
                   notified, cleared, waited, balance,
                   children, is_module, session_log, xpc>>

\* suspender::suspend called by the loop thread from scheduled work, on a
\* handle no controller is using at that moment
loop_suspend_call(h, w) ==
    LET old == m_pcount[h] IN
    /\ lpc = "work"
    /\ alive[h]
    /\ \A t \in Threads : HandleOf(t) = h => pc[t] = "idle"
    /\ ops > 0
    /\ old < MaxDepth
    /\ ops' = ops - 1
    /\ balance' = [balance EXCEPT ![h] = suspend_balance(balance[h])]
    /\ m_pcount' = [m_pcount EXCEPT ![h] = old + 1]
    /\ IF suspend_registers(old)
         THEN IF ~running
                THEN /\ ret' = [ret EXCEPT ![LoopT] = "err_notrunning"]
                     /\ UNCHANGED <<lpc, lh>>
                ELSE /\ lpc' = IF suspend_waits(w, LoopT) THEN "ls_lock_w"
                                                          ELSE "ls_lock"
                     /\ lh' = h
                     /\ UNCHANGED ret
         ELSE IF suspend_waits(w, LoopT)
                THEN lpc' = "ls_wait" /\ lh' = h /\ UNCHANGED ret
                ELSE /\ ret' = [ret EXCEPT ![LoopT] = "suspend_ok"]
                     /\ UNCHANGED <<lpc, lh>>
    /\ wait_arg' = [wait_arg EXCEPT ![LoopT] =
                       w /\ suspend_registers(old) /\ running]
    /\ UNCHANGED <<is_suspended, sysc_lock, sysc_notify, suspender_lock,
                   suspenders, alive, running, pc, notified, cleared,
                   waited,
                   children, is_module, session_log, xpc>>

\* request_pause by the loop thread: lock_guard<mutex> guard(suspender_lock)
loop_pause_lock ==
    /\ lpc \in {"ls_lock", "ls_lock_w"}
    /\ suspender_lock = NoOne
    /\ suspender_lock' = LoopT
    /\ lpc' = IF lpc = "ls_lock" THEN "ls_body" ELSE "ls_body_w"
    /\ UNCHANGED <<is_suspended, sysc_lock, sysc_notify, suspenders, m_pcount,
                   alive, running, lh, pc, wait_arg, ret, ops, notified,
                   cleared, waited, balance,
                   children, is_module, session_log, xpc>>

\* request_pause by the loop thread: stl_add_unique; the wait is skipped, so
\* suspend returns ("ls_wait" is the loop thread locking the sysc_lock it holds)
loop_pause_body ==
    /\ lpc \in {"ls_body", "ls_body_w"}
    /\ suspenders' = stl_add_unique(suspenders, lh)
    /\ suspender_lock' = NoOne
    /\ IF lpc = "ls_body_w"
         THEN lpc' = "ls_wait" /\ UNCHANGED <<lh, ret>>
         ELSE /\ lpc' = "work"
              /\ lh' = NoOne
              /\ ret' = [ret EXCEPT ![LoopT] = "suspend_ok"]
    /\ wait_arg' = [wait_arg EXCEPT ![LoopT] = FALSE]
    /\ UNCHANGED <<is_suspended, sysc_lock, sysc_notify, m_pcount, alive,
                   running, pc, ops, notified, cleared, waited, balance,
                   children, is_module, session_log, xpc>>

\* ------------------------------- a second thread in handle_requests()
OtherT == "X"

\* positions of the loop thread inside handle_requests()
HookPcs == {"hr_count", "hr_count_body", "hr_flag", "hr_pre", "hr_pred",
            "hr_pred_body", "hr_wait", "hr_blocked", "hr_post", "hr_clear"}

\* suspender::handle_requests() called by another thread while the loop
\* thread is inside it: nothing in handle_requests() tests for that
other_enter ==
    /\ xpc = "out"
    /\ lpc \in HookPcs
    /\ xpc' = "hr_count"
    /\ UNCHANGED <<is_suspended, sysc_lock, sysc_notify, suspender_lock,
                   suspenders, m_pcount, alive, running, lpc, lh, pc,
                   wait_arg, ret, ops, notified, cleared, waited, balance,
                   children, is_module, session_log>>

\* count(): lock_guard<mutex> guard(suspender_lock)
other_count_lock ==
    /\ xpc \in {"hr_count", "hr_pred"}
    /\ suspender_lock = NoOne
    /\ suspender_lock' = OtherT
    /\ xpc' = IF xpc = "hr_count" THEN "hr_count_body" ELSE "hr_pred_body"
    /\ UNCHANGED <<is_suspended, sysc_lock, sysc_notify, suspenders,
                   m_pcount, alive, running, lpc, lh, pc, wait_arg, ret, ops,
                   notified, cleared, waited, balance, children, is_module,
                   session_log>>

\* handle_requests: if (count() == 0) return
other_count ==
    /\ xpc = "hr_count_body"
    /\ suspender_lock' = NoOne
    /\ xpc' = IF count = 0 THEN "out" ELSE "hr_flag"
    /\ UNCHANGED <<is_suspended, sysc_lock, sysc_notify, suspenders,
                   m_pcount, alive, running, lpc, lh, pc, wait_arg, ret, ops,
                   notified, cleared, waited, balance, children, is_module,
                   session_log>>

\* handle_requests: is_suspended = true
other_flag ==
    /\ xpc = "hr_flag"
    /\ is_suspended' = TRUE
    /\ xpc' = "hr_pre"
    /\ UNCHANGED <<sysc_lock, sysc_notify, suspender_lock, suspenders,
                   m_pcount, alive, running, lpc, lh, pc, wait_arg, ret, ops,
                   notified, cleared, waited, balance, children, is_module,
                   session_log>>

\* handle_requests: notify_suspend()
other_notify_suspend ==
    /\ xpc = "hr_pre"
    /\ notified' = Append(notified, "suspend")
    /\ session_log' = session_log \o session_calls("suspend", notify_suspend(Root))
    /\ xpc' = "hr_pred"
    /\ UNCHANGED <<is_suspended, sysc_lock, sysc_notify, suspender_lock,
                   suspenders, m_pcount, alive, running, lpc, lh, pc,
                   wait_arg, ret, ops, cleared, waited, balance, children,
                   is_module>>

\* one evaluation of the wait's predicate
other_pred ==
    /\ xpc = "hr_pred_body"
    /\ suspender_lock' = NoOne
    /\ xpc' = IF wait_predicate THEN "hr_post" ELSE "hr_wait"
    /\ UNCHANGED <<is_suspended, sysc_lock, sysc_notify, suspenders,
                   m_pcount, alive, running, lpc, lh, pc, wait_arg, ret, ops,
                   notified, cleared, waited, balance, children, is_module,
                   session_log>>

\* wait(lock) unlocks sysc_lock, which this thread does not own: undefined
\* behaviour of mutex::unlock.  The mutex is released under its owner, or is
\* left as it was, and the thread blocks; or the runtime ends the thread
other_wait ==
    /\ xpc = "hr_wait"
    /\ \E released \in BOOLEAN, ended \in BOOLEAN :
          /\ sysc_lock' = IF released /\ ~ended THEN NoOne ELSE sysc_lock
          /\ xpc' = IF ended THEN "aborted" ELSE "hr_blocked"
          /\ sysc_notify' = IF ended THEN sysc_notify
                                     ELSE sysc_notify \cup {OtherT}
    /\ UNCHANGED <<is_suspended, suspender_lock, suspenders, m_pcount, alive,
                   running, lpc, lh, pc, wait_arg, ret, ops, notified,
                   cleared, waited, balance, children, is_module,
                   session_log>>

\* wait(lock): once woken the thread locks sysc_lock and evaluates the
\* predicate again
other_wakeup ==
    /\ xpc = "hr_blocked"
    /\ OtherT \notin sysc_notify
    /\ sysc_lock = NoOne
    /\ sysc_lock' = OtherT
    /\ xpc' = "hr_pred"
    /\ UNCHANGED <<is_suspended, sysc_notify, suspender_lock, suspenders,
                   m_pcount, alive, running, lpc, lh, pc, wait_arg, ret, ops,
                   notified, cleared, waited, balance, children, is_module,
                   session_log>>

\* handle_requests: notify_resume()
other_notify_resume ==
    /\ xpc = "hr_post"
    /\ notified' = Append(notified, "resume")
    /\ session_log' = session_log \o session_calls("resume", notify_resume(Root))
    /\ xpc' = "hr_clear"
    /\ UNCHANGED <<is_suspended, sysc_lock, sysc_notify, suspender_lock,
                   suspenders, m_pcount, alive, running, lpc, lh, pc,
                   wait_arg, ret, ops, cleared, waited, balance, children,
                   is_module>>

\* handle_requests: is_suspended = false, and the return
other_clear ==
    /\ xpc = "hr_clear"
    /\ is_suspended' = FALSE
    /\ xpc' = "out"
    /\ UNCHANGED <<sysc_lock, sysc_notify, suspender_lock, suspenders,
                   m_pcount, alive, running, lpc, lh, pc, wait_arg, ret, ops,
                   notified, cleared, waited, balance, children, is_module,
                   session_log>>

OtherNext ==
    \/ other_enter \/ other_count_lock \/ other_count \/ other_flag
    \/ other_notify_suspend \/ other_pred \/ other_wait \/ other_wakeup
    \/ other_notify_resume \/ other_clear

\* ------------------------------------------------------ the specification
LoopProgress ==
    \/ count_lock \/ hr_count \/ hr_flag \/ hr_notify_suspend \/ hr_pred
    \/ hr_wait \/ hr_wakeup \/ hr_notify_resume \/ hr_clear
    \/ loop_pause_lock \/ loop_pause_body

LoopNext ==
    \/ sim_start \/ sim_stop \/ loop_boundary \/ hr_spurious
    \/ \E h \in Handles, w \in BOOLEAN : loop_suspend_call(h, w)
    \/ LoopProgress

\* a controller starts a call
ThreadCall(t) ==
    \/ \E w \in BOOLEAN : suspend_call(t, w)
    \/ resume_call(t)
    \/ destroy_call(t)
    \/ force_resume_call(t)
    \/ current_call(t)

\* a controller goes on with the call it is in
ThreadProgress(t) ==
    \/ request_pause_lock(t) \/ request_pause_body(t)
    \/ suspend_wait_lock(t) \/ suspend_wait_unlock(t)
    \/ request_resume_lock(t) \/ resume_body(t)
    \/ is_suspending_lock(t) \/ destroy_check(t) \/ destroy_resume_body(t)
    \/ force_resume_lock(t) \/ force_resume_body(t)
    \/ current_unlock(t) \/ current_lock(t) \/ current_body(t)

Next ==
    \/ LoopNext
    \/ \E t \in Threads : ThreadCall(t) \/ ThreadProgress(t)

Spec == Init /\ [][Next]_vars

\* every thread inside a call goes on; a mutex that is free again and again
\* is eventually acquired; a spurious wakeup is never owed
FairSpec ==
    /\ InitWith(FairOps)
    /\ [][Next]_vars
    /\ WF_vars(LoopProgress)
    /\ \A t \in Threads : SF_vars(ThreadProgress(t))

\* any hierarchy of MaxNodes objects, any of them modules; the loop thread and
\* one controller
HierInit ==
    /\ InitGate(HierOps)
    /\ \E parent \in Hierarchies, mods \in [Nodes -> BOOLEAN] :
          InitHierarchy(parent, mods)

HierNext == LoopNext \/ ThreadCall("T1") \/ ThreadProgress("T1")

HierSpec == HierInit /\ [][HierNext]_vars

\* the program with a second thread that calls handle_requests() while the
\* loop thread is inside it
ConcSpec == InitWith(ConcOps) /\ [][Next \/ OtherNext]_vars

\* ----------------------------------------------------------------- typing
TypeOK ==
    /\ is_suspended \in BOOLEAN
    /\ sysc_lock \in Threads \cup {LoopT, OtherT, NoOne}
    /\ sysc_notify \subseteq {LoopT, OtherT}
    /\ suspender_lock \in Threads \cup {LoopT, OtherT, NoOne}
    /\ \A i \in 1..Len(suspenders) : suspenders[i] \in Handles
    /\ \A h \in Handles : m_pcount[h] \in -MaxUnmatched..MaxDepth
    /\ ops \in 0..MaxOps

\* ------------------------------------------------------ positions, sets
\* the loop thread is inside sysc_notify.wait(sysc_lock, pred)
InsideWait == {"hr_pred", "hr_pred_body", "hr_wait", "hr_blocked"}

\* the loop thread is in the pause logic of handle_requests(), past the first
\* count() test and not past the wait
PausePcs == {"hr_flag", "hr_pre"} \cup InsideWait

\* no call is in progress on the live handle h
Quiescent(h) ==
    /\ alive[h]
    /\ lh # h
    /\ \A t \in Threads : HandleOf(t) = h => pc[t] = "idle"

Registered(h) == stl_contains(suspenders, h)

\* ------------------------------------------------------------------ claims

\* C1: no wakeup is lost: when the registry is emptied by request_resume()
\* alone (no force_resume() is ever made) and stays empty, the loop thread
\* returns from handle_requests(): it is in scheduled work again and again.
\* Stated under FairSpec, for the behaviours that never use up the calls
\* allowed (the threads could still call); the code violates it.
C1_NoLostWakeup ==
    (/\ [](\A t \in Threads : pc[t] \notin {"f_lock", "f_body"})
     /\ [](ops > 0)
     /\ <>[](Len(suspenders) = 0))
        => []<>(lpc = "work")

\* C2: having seen a non-empty registry in the first test, the loop thread
\* leaves the pause logic only in a step in which the registry is empty; while
\* an identity is registered it stays inside.
C2_BlocksUntilEmpty ==
    [][(lpc \in PausePcs /\ lpc' \notin PausePcs) => Len(suspenders) = 0]_vars

\* C2 witness: the loop thread blocked in the wait with a registered identity
C2_Witness ==
    /\ lpc = "hr_blocked"
    /\ LoopT \in sysc_notify
    /\ Len(suspenders) > 0
    /\ is_suspended

\* C3: after suspend(true) has returned to a controller, and until its handle
\* is released or force_resume() is called, the paused flag is set, the
\* pre-pause notification is done and the loop thread is inside the wait.
\* The code violates it.
C3_WaitReturnsPaused ==
    \A h \in Handles :
        waited[h] = "yes" => /\ is_suspended
                             /\ notified = <<"suspend">>
                             /\ lpc \in InsideWait

\* C4: in each handle_requests() call the notifications are none (fast
\* path), or the pre-pause one once and then the post-resume one once; the
\* pre-pause one is outstanding exactly from notify_suspend() to
\* notify_resume().
C4_NotifyOncePerCycle ==
    /\ notified \in {<<>>, <<"suspend">>, <<"suspend", "resume">>}
    /\ lpc \in {"hr_count", "hr_count_body", "hr_flag", "hr_pre"}
          => notified = <<>>
    /\ lpc \in InsideWait \cup {"hr_post"} <=> notified = <<"suspend">>
    /\ lpc = "hr_clear" => notified = <<"suspend", "resume">>

\* C4 witness: a pause cycle is complete while a handle is registered again
C4_Witness ==
    /\ lpc = "work"
    /\ notified = <<"suspend", "resume">>
    /\ ~is_suspended
    /\ Len(suspenders) > 0

\* C5: when the first count() of handle_requests() finds the registry empty
\* the loop thread's next step is the return: no notification, no wait, the
\* paused flag false.
C5_EmptyReturnsAtOnce ==
    [][(lpc = "hr_count_body" /\ Len(suspenders) = 0 /\ lpc' # lpc)
          => /\ lpc' = "work"
             /\ notified' = <<>>
             /\ ~is_suspended'
             /\ sysc_lock' = LoopT]_vars

\* C5 witness: the first count() is reading an empty registry
C5_Witness ==
    /\ lpc = "hr_count_body"
    /\ Len(suspenders) = 0
    /\ \E h \in Handles : m_pcount[h] > 0

\* C6: when force_resume() clears the registry while the loop thread is
\* paused and the registry then stays empty, the loop thread returns from
\* handle_requests().  Stated under FairSpec, for the behaviours that never
\* use up the calls allowed; the code violates it.
C6_ForceResumeUnblocks ==
    ([](ops > 0) /\ <>[](Len(suspenders) = 0))
        => [](((\E t \in Threads : pc[t] = "f_body") /\ lpc \in InsideWait)
                 => <>(lpc = "work"))

\* C7: each step of a resume() on a handle that force_resume() cleared at
\* depth >= 1 leaves the registry unchanged, and the call returns without the
\* unmatched-resume error.
C7_ClearedResumeIsNoop ==
    [][\A t \in Threads :
          (/\ cleared[HandleOf(t)]
           /\ \/ pc[t] \in {"rr_lock", "rr_body"}
              \/ m_pcount'[HandleOf(t)] < m_pcount[HandleOf(t)]
           /\ pc'[t] # pc[t] \/ ret'[t] # ret[t]
                             \/ m_pcount'[HandleOf(t)] # m_pcount[HandleOf(t)])
          => /\ suspenders' = suspenders
             /\ pc'[t] = "idle" => ret'[t] = "resume_ok"]_vars

\* C7 witness: the last matching resume() of a cleared handle is about to
\* run request_resume while another handle is registered
C7_Witness ==
    \E t \in Threads :
        /\ pc[t] = "rr_body"
        /\ cleared[HandleOf(t)]
        /\ m_pcount[HandleOf(t)] = 0
        /\ Len(suspenders) > 0

\* C8: the registry never holds the identity of a destroyed handle.  The code
\* violates it.
C8_NoDestroyedIdentity ==
    \A h \in Handles : ~alive[h] => ~Registered(h)

\* C9: after calls on one handle in which every resume() matched an earlier
\* suspend() and every suspend() is matched, the counter is 0 and
\* is_suspending() is false.
C9_MatchedReturnsToZero ==
    \A h \in Handles :
        (Quiescent(h) /\ balance[h] = 0)
            => (m_pcount[h] = 0 /\ ~Registered(h))

\* C9 witness: one thread made every call, the last a resume() that matched
\* the last open suspend() of its handle
C9_Witness ==
    /\ Quiescent("A")
    /\ balance["A"] = 0
    /\ ret["T1"] = "resume_ok"
    /\ ret["T2"] = "none"
    /\ ret[LoopT] = "none"
    /\ ops = 0

\* C10: with no call in progress on a live handle, its identity is in the
\* registry if and only if its counter is > 0.  The code violates it.
C10_RegisteredIffCounted ==
    \A h \in Handles : Quiescent(h) => (Registered(h) <=> m_pcount[h] > 0)

\* no call is in progress on any handle
AllQuiet == lh = NoOne /\ \A t \in Threads : pc[t] = "idle"

\* C11: with no call in progress, count() is the number of live handles
\* whose counter is > 0.  The code violates it.
C11_CountIsActiveHandles ==
    AllQuiet => count = Cardinality({h \in Handles : alive[h] /\ m_pcount[h] > 0})

\* C12: a handle's counter is never negative.  The code violates it.
C12_CounterNonNegative ==
    \A h \in Handles : m_pcount[h] >= 0

\* C13: resume() on a handle whose counter is 0 fails with the fatal
\* "unmatched resume" error, the call is over, and the registry is as it was
\* (no other identity is removed).
C13_UnmatchedResumeFails ==
    [][\A t \in Threads :
          (pc[t] = "idle" /\ m_pcount[HandleOf(t)] = 0
             /\ m_pcount'[HandleOf(t)] = 0 - 1)
          => /\ ret'[t] = "err_unmatched"
             /\ pc'[t] = "idle"
             /\ suspenders' = suspenders]_vars

\* an unmatched resume() on A has failed while B stays registered
C13_Witness ==
    /\ ret["T1"] = "err_unmatched" /\ pc["T1"] = "idle" /\ alive["A"]
    /\ m_pcount["A"] = 0 - 1
    /\ suspenders = <<"B">>

\* C14: a suspend() that has to register (counter 0) while the simulation is
\* not running fails with the fatal error, the call is over and the registry
\* is unchanged.
C14_PauseNotRunningFails ==
    [][\A h \in Handles :
          (~running /\ m_pcount[h] = 0 /\ m_pcount'[h] = 1)
          => /\ suspenders' = suspenders
             /\ \A t \in Threads : HandleOf(t) = h => pc'[t] = "idle"
             /\ lpc' = "work" /\ lh' = NoOne
             /\ \E x \in Threads \cup {LoopT} :
                   ret' = [ret EXCEPT ![x] = "err_notrunning"]]_vars

\* a suspend() has failed because the simulation was not running, with another
\* handle registered from before the simulation ended
C14_Witness ==
    /\ ret["T1"] = "err_notrunning" /\ pc["T1"] = "idle"
    /\ ~running /\ ~stl_contains(suspenders, "A")
    /\ suspenders = <<"B">>

\* the step is a current() whose try_lock failed: a call was made, no thread
\* moved and no counter changed
CurrentFailed == ops' < ops /\ pc' = pc /\ m_pcount' = m_pcount

\* the step is the return of a current() of thread t whose try_lock succeeded
CurrentRead(t) == pc[t] = "c_body" /\ pc'[t] = "idle"

\* the loop thread is blocked in the wait and no wakeup is on its way
LoopBlocked == lpc = "hr_blocked" /\ LoopT \in sysc_notify

\* C15 as stated: while the loop thread is blocked in handle_requests() with a
\* non-empty registry, no current() returns none.  The code violates it.
C15_CurrentWhilePaused ==
    [][~(LoopBlocked /\ Len(suspenders) > 0 /\ CurrentFailed)]_vars

\* C15 amended: a current() gets past its probe only while the loop thread is
\* in the wait; what it returns then is the first registry entry at the time
\* it reads the registry, none if that is empty; and while the loop thread is
\* in the wait a probe fails only because another controller holds sysc_lock.
C15_CurrentBestEffort ==
    [][\A t \in Threads :
          /\ (pc[t] = "idle" /\ pc'[t] = "c_unlock") => lpc = "hr_blocked"
          /\ (CurrentRead(t) /\ ret'[t] # "null")
                => suspenders # <<>> /\ ret'[t] = suspenders[1]
          /\ (CurrentRead(t) /\ ret'[t] = "null") => suspenders = <<>>
          /\ (CurrentFailed /\ lpc = "hr_blocked")
                => sysc_lock \in Threads]_vars

\* with B registered before A and the loop blocked, current() has returned B
C15_Witness ==
    /\ ret["T1"] = "B" /\ pc["T1"] = "idle"
    /\ LoopBlocked
    /\ suspenders = <<"B", "A">>

\* C16 as stated: a current() whose probe succeeded returns none.  The code
\* does the opposite.
C16_ProbeSuccessIsNone ==
    [][\A t \in Threads : CurrentRead(t) => ret'[t] = "null"]_vars

\* C16 amended: when try_lock fails the result is none regardless of the
\* registry; when it succeeds the lock is released again and the result is
\* the first registry entry, none if the registry is empty.
C16_ProbeDecides ==
    [][/\ CurrentFailed
            => /\ sysc_lock # NoOne
               /\ \E t \in Threads :
                     pc[t] = "idle" /\ ret' = [ret EXCEPT ![t] = "null"]
       /\ \A t \in Threads :
            /\ (pc[t] = "idle" /\ pc'[t] \in {"c_unlock", "c_lock", "c_body"})
                  => sysc_lock = NoOne /\ sysc_lock' = t /\ pc'[t] = "c_unlock"
            /\ (pc[t] = "c_unlock" /\ pc'[t] # pc[t])
                  => sysc_lock' = NoOne /\ pc'[t] = "c_lock"
            /\ CurrentRead(t)
                  => ret'[t] = IF Len(suspenders) = 0 THEN "null"
                                                      ELSE Head(suspenders)]_vars

\* a probe has failed with a non-empty registry, the loop blocked and another
\* controller inside the lock of its suspend(true)
C16_Witness ==
    /\ ret["T1"] = "null" /\ pc["T1"] = "idle"
    /\ pc["T2"] = "sw_unlock" /\ sysc_lock = "T2"
    /\ lpc = "hr_blocked" /\ Len(suspenders) > 0

\* position of an element of a sequence without repetition
stl_find(v, s) == CHOOSE i \in 1..Len(v) : v[i] = s

\* no identity is in the registry twice
NoDuplicate(v) == \A i, j \in 1..Len(v) : v[i] = v[j] => i = j

\* w holds the identities of v that remain in the order they have in v, and
\* after them the identities that are new
KeepsOrder(v, w) ==
    \A i, j \in 1..Len(w) :
       i < j => /\ stl_contains(v, w[j]) => stl_contains(v, w[i])
                /\ (stl_contains(v, w[i]) /\ stl_contains(v, w[j]))
                      => stl_find(v, w[i]) < stl_find(v, w[j])

\* C17 as stated, its scenario: with A registered before B and the loop
\* blocked, a current() is A, never none.  The code violates it.
C17_CurrentIsFirstRegistered ==
    [][~(LoopBlocked /\ suspenders = <<"A", "B">> /\ CurrentFailed)]_vars

\* C17 amended: the registry never holds an identity twice, whatever the
\* nesting depth, and every step keeps the remaining identities in their
\* order of registration, a new identity going to the end; a current() that
\* returns an identity returns the first one, the earliest registered still
\* there.
C17_RegistryOrdered ==
    /\ NoDuplicate(suspenders)
    /\ [][/\ NoDuplicate(suspenders')
          /\ KeepsOrder(suspenders, suspenders')
          /\ \A t \in Threads :
                (CurrentRead(t) /\ ret'[t] # "null")
                   => stl_find(suspenders, ret'[t]) = 1]_vars

\* A is registered at depth 2 and before B, the loop is blocked and a
\* current() of the other controller has returned A
C17_Witness ==
    /\ suspenders = <<"A", "B">> /\ m_pcount["A"] = 2
    /\ LoopBlocked
    /\ ret["T2"] = "A" /\ pc["T2"] = "idle"

\* positions between is_suspended = true and is_suspended = false
FlagPcs == {"hr_pre"} \cup InsideWait \cup {"hr_post", "hr_clear"}

\* C18 as stated: the flag is true exactly while the loop thread is inside the
\* wait of handle_requests().  The code violates it during both notifications.
C18_FlagIffInWait ==
    is_suspended <=> lpc \in InsideWait

\* C18 amended: the flag is true exactly from the assignment that follows the
\* count() test, through the pre-pause notification, the wait and the
\* post-resume notification, up to the assignment that ends handle_requests().
C18_FlagIffPauseSection ==
    is_suspended <=> lpc \in FlagPcs

\* both notifications have been made and the flag is still true
C18_Witness ==
    /\ is_suspended /\ lpc = "hr_clear"
    /\ notified = <<"suspend", "resume">>

\* positions of a loop thread that waits on sysc_lock inside suspend()
LoopWaitPcs == {"ls_lock_w", "ls_body_w", "ls_wait"}

\* C19: the loop thread never gets to the lock of sysc_lock in suspend(),
\* whatever its wait argument; it keeps sysc_lock through the call, and the
\* call that has to register ends with the handle registered and returns.
C19_LoopSuspendReturns ==
    /\ lpc \notin LoopWaitPcs
    /\ [][/\ lpc' \notin LoopWaitPcs
          /\ (lpc \in {"ls_lock", "ls_body"} \/ lpc' \in {"ls_lock", "ls_body"})
                => sysc_lock = LoopT /\ sysc_lock' = LoopT
          /\ (lpc = "ls_body" /\ lpc' # lpc)
                => /\ lpc' = "work"
                   /\ stl_contains(suspenders', lh)
                   /\ ret'[LoopT] = "suspend_ok"]_vars

\* the loop thread is about to register a handle in a suspend(true)
C19_Witness ==
    /\ lpc = "ls_body" /\ wait_arg[LoopT]
    /\ lh # NoOne /\ m_pcount[lh] = 1 /\ ~stl_contains(suspenders, lh)
    /\ sysc_lock = LoopT

RECURSIVE Descendants(_)
\* the objects below an object of the hierarchy
Descendants(obj) ==
    LET kids == {children[obj][i] : i \in 1..Len(children[obj])} IN
    kids \cup UNION {Descendants(k) : k \in kids}

\* C20: in the pre-pause traversal every module's session_suspend() comes
\* before the session_suspend() of each of its descendants.  The code makes
\* the calls in the opposite order.
C20_SuspendRootToLeaf ==
    \A i, j \in 1..Len(session_log) :
       (/\ session_log[i].call = "suspend" /\ session_log[j].call = "suspend"
        /\ session_log[j].node \in Descendants(session_log[i].node))
       => i < j

\* number of calls of one kind the log holds for an object
session_count(kind, n) ==
    Cardinality({i \in 1..Len(session_log) :
                    session_log[i] = [call |-> kind, node |-> n]})

\* every module has had the call exactly once and no other object has had it
OncePerModule(kind) ==
    \A n \in Nodes : session_count(kind, n) = IF is_module[n] THEN 1 ELSE 0

\* C21: in a pause cycle, for every hierarchy, session_suspend() has been
\* called exactly once on every module and on nothing else when the loop
\* thread enters the wait, no session_resume() is called before the wait is
\* over, and when handle_requests() ends session_resume() has been called
\* exactly once on every module too: the same set of objects.
C21_OncePerModuleBothWays ==
    /\ lpc \in {"hr_flag", "hr_pre"} => session_log = <<>>
    /\ lpc \in InsideWait \cup {"hr_post"}
          => OncePerModule("suspend") /\ \A n \in Nodes : session_count("resume", n) = 0
    /\ lpc = "hr_clear"
          => /\ OncePerModule("suspend") /\ OncePerModule("resume")
             /\ {session_log[i].node : i \in {j \in 1..Len(session_log) : session_log[j].call = "suspend"}}
                  = {session_log[i].node : i \in {j \in 1..Len(session_log) : session_log[j].call = "resume"}}

\* a pause cycle is over in a hierarchy with two modules, one of them below
\* an object that is not a module
C21_Witness ==
    /\ lpc = "hr_clear" /\ Len(session_log) = 4
    /\ \E n \in Nodes : ~is_module[n] /\ children[n] # <<>>
                           /\ is_module[Head(children[n])]

\* the state of the gate: paused while the flag is set, else pending while an
\* identity is registered
GateState ==
    IF is_suspended THEN "PAUSED"
    ELSE IF count > 0 THEN "PAUSE_PENDING" ELSE "RUNNING"

\* the gate goes from state a to state b in this step
GateStep(a, b) == GateState = a /\ GateState' = b

\* the step is the body of a force_resume()
ForceResumeStep == \E t \in Threads : pc[t] = "f_body" /\ pc'[t] = "idle"

\* the step is the body of a request_pause()
RequestPauseStep ==
    \/ \E t \in Threads : pc[t] = "rp_body" /\ pc'[t] # "rp_body"
    \/ lpc = "ls_body" /\ lpc' # lpc

\* the step is the body of a request_resume() or of a force_resume()
RequestResumeStep ==
    \/ \E t \in Threads : pc[t] \in {"rr_body", "drr_body"} /\ pc'[t] = "idle"
    \/ ForceResumeStep

\* C22 as stated: the gate changes state only from RUNNING to PAUSE_PENDING,
\* from PAUSE_PENDING to PAUSED, from PAUSED to RUNNING, and to RUNNING by
\* force_resume().  The code violates it.
C22_ListedTransitionsOnly ==
    [][GateState' # GateState
         => \/ GateStep("RUNNING", "PAUSE_PENDING")
            \/ GateStep("PAUSE_PENDING", "PAUSED")
            \/ GateStep("PAUSED", "RUNNING")
            \/ GateState' = "RUNNING" /\ ForceResumeStep]_vars

\* C22 amended: the gate changes state only by the first registration into an
\* empty registry (RUNNING to PAUSE_PENDING), by the removal of the last
\* identity before the loop thread has paused (PAUSE_PENDING to RUNNING: a
\* resume(), a destructor or force_resume()), by handle_requests() setting the
\* flag after it saw a non-empty registry (to PAUSED, from PAUSE_PENDING, or
\* from RUNNING if the registry emptied meanwhile), and by handle_requests()
\* clearing the flag (from PAUSED to RUNNING, or to PAUSE_PENDING if an
\* identity registered after the wait was over).
C22_GateTransitions ==
    [][GateState' # GateState
         => \/ /\ GateStep("RUNNING", "PAUSE_PENDING")
               /\ RequestPauseStep /\ Len(suspenders') = 1
            \/ /\ GateStep("PAUSE_PENDING", "RUNNING")
               /\ RequestResumeStep
            \/ /\ GateStep("PAUSE_PENDING", "PAUSED") \/ GateStep("RUNNING", "PAUSED")
               /\ lpc = "hr_flag" /\ lpc' = "hr_pre"
            \/ /\ GateStep("PAUSED", "RUNNING") \/ GateStep("PAUSED", "PAUSE_PENDING")
               /\ lpc = "hr_clear" /\ lpc' = "work"]_vars

\* two calls were made: the loop thread registered A and the controller's
\* resume() removed it again, the gate being back to RUNNING
C22_Witness ==
    /\ ops = MaxOps - 2
    /\ ret[LoopT] = "suspend_ok" /\ ret["T1"] = "resume_ok"
    /\ GateState = "RUNNING" /\ lpc = "work" /\ m_pcount["A"] = 0

\* C23: the loop thread and a second thread are never both inside the pause
\* logic of handle_requests(): the second one is stopped with a fatal error.
\* The code has no such test, and both go on.
C23_ConcurrentUseIsFatal ==
    ~(lpc \in FlagPcs /\ xpc \in FlagPcs)

\* the step is the body of the request_resume() of thread t
RequestResumeOf(t) == pc[t] \in {"rr_body", "drr_body"} /\ pc'[t] = "idle"

\* C24: request_resume(id) leaves a registry without id as it is and raises
\* no error, takes id out of a registry that has it and leaves the others in
\* place, does nothing more when applied a second time, and whenever the
\* registry is empty after it no waiter of the condition variable is left
\* unnotified.
C24_RequestResumeIdempotent ==
    [][\A t \in Threads :
          RequestResumeOf(t)
          => /\ ~stl_contains(suspenders, HandleOf(t)) => suspenders' = suspenders
             /\ ~stl_contains(suspenders', HandleOf(t))
             /\ \A h \in Handles \ {HandleOf(t)} :
                   stl_contains(suspenders', h) <=> stl_contains(suspenders, h)
             /\ stl_remove_erase(suspenders', HandleOf(t)) = suspenders'
             /\ pc[t] = "rr_body" => ret'[t] = "resume_ok"
             /\ suspenders' = <<>> => sysc_notify' = {}]_vars

\* a request_resume() is under way for A, which is not registered, while B is
C24_Witness ==
    /\ pc["T1"] = "rr_body" /\ suspender_lock = "T1"
    /\ suspenders = <<"B">>

\* the step belongs to a suspend() on the handle of thread t, up to the end
\* of request_pause
SuspendStep(t) ==
    \/ pc[t] = "idle" /\ m_pcount'[HandleOf(t)] = m_pcount[HandleOf(t)] + 1
    \/ pc[t] \in {"rp_lock", "rp_body"} /\ pc'[t] # pc[t]

\* C25: no step of a suspend() changes the paused flag, makes a notification
\* or touches sysc_lock and its waiters; the flag is set only by the loop
\* thread inside handle_requests(), after its count() test, and the
\* notifications are made only by the loop thread inside handle_requests().
C25_PauseOnlyInHook ==
    [][/\ \A t \in Threads :
             SuspendStep(t) => UNCHANGED <<is_suspended, notified, session_log,
                                           sysc_lock, sysc_notify>>
       /\ (is_suspended' /\ ~is_suspended)
             => lpc = "hr_flag" /\ lpc' = "hr_pre" /\ pc' = pc
       /\ (notified' # notified /\ notified' # <<>>)
             => lpc \in {"hr_pre", "hr_post"} /\ lpc' # lpc /\ pc' = pc]_vars

\* a suspend(false) has returned with its handle registered; the loop thread
\* is at its work, not paused and nothing notified
C25_Witness ==
    /\ pc["T1"] = "idle" /\ ret["T1"] = "suspend_ok" /\ waited["A"] = "no"
    /\ stl_contains(suspenders, "A") /\ m_pcount["A"] = 1
    /\ ~is_suspended /\ lpc = "work" /\ notified = <<>>
    /\ ops = MaxOps - 1

\* the thread is acquiring sysc_lock, holds it, or waits on it
OnSyscLock(x) ==
    IF x = LoopT THEN lpc \in {"hr_wait", "hr_blocked", "ls_wait"}
    ELSE pc[x] \in {"sw_lock", "sw_unlock", "c_unlock"}

\* the thread is blocked on suspender_lock
WantsSuspenderLock(x) ==
    IF x = LoopT THEN lpc \in {"hr_count", "hr_pred", "ls_lock", "ls_lock_w"}
    ELSE pc[x] \in {"rp_lock", "rr_lock", "drr_lock", "d_lock", "f_lock", "c_lock"}

\* C26: a thread that holds suspender_lock is not acquiring, probing or
\* waiting on sysc_lock, every acquisition of sysc_lock is made without
\* suspender_lock, and no controller waits for the sysc_lock of a loop thread
\* that waits for the suspender_lock the controller holds.
C26_LockOrder ==
    /\ [](\A x \in Threads \cup {LoopT} : suspender_lock = x => ~OnSyscLock(x))
    /\ [](\A t \in Threads :
            ~(/\ pc[t] = "sw_lock" /\ sysc_lock = LoopT
              /\ WantsSuspenderLock(LoopT) /\ suspender_lock = t))
    /\ [][sysc_lock' \notin {sysc_lock, NoOne} => suspender_lock # sysc_lock']_vars

\* a controller in suspend(true) waits for sysc_lock while the loop thread,
\* which holds it, is inside count() with suspender_lock
C26_Witness ==
    /\ pc["T1"] = "sw_lock" /\ sysc_lock = LoopT
    /\ suspender_lock = LoopT /\ lpc = "hr_count_body"

\* C27: the loop thread holds sysc_lock in every state in which it is not
\* blocked in the condition wait of handle_requests(); so a controller holds
\* sysc_lock only while the loop thread is blocked there.
C27_LoopHoldsSyscLock ==
    /\ lpc # "hr_blocked" => sysc_lock = LoopT
    /\ \A t \in Threads : sysc_lock = t => lpc = "hr_blocked"

\* the wait is over and the loop thread is in the post-resume part, holding
\* sysc_lock, while a controller in suspend(true) waits for it
C27_Witness ==
    /\ lpc = "hr_clear" /\ sysc_lock = LoopT
    /\ pc["T1"] = "sw_lock"

\* the step is the return without error of a suspend() of thread t
SuspendReturns(t) ==
    /\ pc'[t] = "idle" /\ ret'[t] = "suspend_ok"
    /\ \/ pc[t] = "idle" /\ m_pcount'[HandleOf(t)] = m_pcount[HandleOf(t)] + 1
                         /\ lpc' = lpc /\ ret'[LoopT] = ret[LoopT]
       \/ pc[t] \in {"rp_body", "sw_unlock"}

\* C28, in the two cases it names: when a suspend() returns without error on
\* a handle that force_resume() had cleared, or that an unmatched resume() had
\* failed on, the handle is in the registry.  The code violates it.
C28_NoDroppedPause ==
    [][\A t \in Threads :
          (/\ SuspendReturns(t)
           /\ cleared[HandleOf(t)] \/ m_pcount[HandleOf(t)] < 0)
          => stl_contains(suspenders', HandleOf(t))]_vars

\* C29: while the simulation is not running a counter that is 0 is not
\* raised: the only call that could raise it is the suspend() that fails in
\* request_pause, and that call leaves the counter as it found it.  The code
\* violates it.
C29_FailedSuspendKeepsCounter ==
    [][\A h \in Handles :
          (~running /\ m_pcount[h] = 0) => m_pcount'[h] <= 0]_vars

InWaitingSuspend(t) ==
    \/ pc[t] \in {"sw_lock", "sw_unlock"}
    \/ pc[t] \in {"rp_lock", "rp_body"} /\ wait_arg[t]

\* C31, in the case it names: when the loop thread calls handle_requests()
\* again and again, a suspend(true) on a handle that force_resume() cleared
\* returns.  Stated under FairSpec; the code violates it.
C31_WaitingSuspendReturns ==
    []<>(lpc = "hr_count")
        => \A t \in Threads :
              []((InWaitingSuspend(t) /\ cleared[HandleOf(t)])
                    => <>(pc[t] = "idle"))

====
